---- MODULE Spec2Model ----
(***************************************************************************)
(* Model of the sha256coin website server (server.js): the POST /rpc       *)
(* JSON-RPC gateway, its parameter validation, the body parser and error   *)
(* handler in front of it, and the four express-rate-limit limiters.       *)
(*                                                                         *)
(* A JavaScript string is a sequence of one-character strings, so that     *)
(* toLowerCase and the regular expressions are computed character by       *)
(* character.  A JSON value is a record with a type tag t and one payload  *)
(* field per type (s string, n number, a array elements).                  *)
(***************************************************************************)
EXTENDS Integers, Sequences, FiniteSets, TLC

(***************************************************************************)
(* Bounds of the model                                                     *)
(***************************************************************************)
\* clock advances in a behaviour of the rate-limit specification
MaxTicks == 2
\* requests a client issues beyond a limiter's max inside one window
MaxOver == 1

(***************************************************************************)
(* Characters and strings                                                  *)
(***************************************************************************)
Digit == {"0", "1", "2", "3", "4", "5", "6", "7", "8", "9"}
LowerAlpha == {"a", "b", "c", "d", "e", "f", "g", "h", "i", "j", "k", "l", "m",
               "n", "o", "p", "q", "r", "s", "t", "u", "v", "w", "x", "y", "z"}
UpperAlpha == {"A", "B", "C", "D", "E", "F", "G", "H", "I", "J", "K", "L", "M",
               "N", "O", "P", "Q", "R", "S", "T", "U", "V", "W", "X", "Y", "Z"}
\* the character class [a-fA-F0-9]
HexChar == Digit \cup {"a", "b", "c", "d", "e", "f", "A", "B", "C", "D", "E", "F"}
\* the character class [a-zA-Z0-9]
AlnumChar == Digit \cup LowerAlpha \cup UpperAlpha

\* String.prototype.toLowerCase on one character ("KELVIN" stands for
\* U+212A, a non-ASCII character whose lower case is the ASCII letter k)
lowerChar(c) ==
  CASE c = "A" -> "a" [] c = "B" -> "b" [] c = "C" -> "c" [] c = "D" -> "d"
    [] c = "E" -> "e" [] c = "F" -> "f" [] c = "G" -> "g" [] c = "H" -> "h"
    [] c = "I" -> "i" [] c = "J" -> "j" [] c = "K" -> "k" [] c = "L" -> "l"
    [] c = "M" -> "m" [] c = "N" -> "n" [] c = "O" -> "o" [] c = "P" -> "p"
    [] c = "Q" -> "q" [] c = "R" -> "r" [] c = "S" -> "s" [] c = "T" -> "t"
    [] c = "U" -> "u" [] c = "V" -> "v" [] c = "W" -> "w" [] c = "X" -> "x"
    [] c = "Y" -> "y" [] c = "Z" -> "z" [] c = "KELVIN" -> "k"
    [] OTHER -> c

\* req.body.method.toLowerCase()
toLowerCase(s) == [i \in 1..Len(s) |-> lowerChar(s[i])]

\* the string made of n copies of the character c
Rep(c, n) == [i \in 1..n |-> c]

\* decimal digits of a natural number, as String(n) prints them
RECURSIVE NatToString(_)
NatToString(n) ==
  IF n < 10 THEN <<(<<"0", "1", "2", "3", "4", "5", "6", "7", "8", "9">>)[n + 1]>>
  ELSE NatToString(n \div 10) \o NatToString(n % 10)

(***************************************************************************)
(* JSON values                                                             *)
(***************************************************************************)
\* f holds an object's fields: a function from the names of its fields to
\* their values, the empty function where there are none
JUndef ==
  [t |-> "undefined", s |-> <<>>, n |-> 0, e |-> 0, a |-> <<>>, f |-> [k \in {} |-> 0]]
JNull == [JUndef EXCEPT !.t = "null"]
JBool(b) == [JUndef EXCEPT !.t = "boolean", !.n = IF b THEN 1 ELSE 0]
\* the number n
JNum(n) == [JUndef EXCEPT !.t = "number", !.n = n]
\* the number n / 10^scale, for a scale > 0 and an n that 10 does not divide
JDec(n, scale) == [JUndef EXCEPT !.t = "number", !.n = n, !.e = 0 - scale]
\* the numbers Infinity, -Infinity and NaN (typeof is 'number')
JInfinity == [JUndef EXCEPT !.t = "Infinity"]
JNegInfinity == [JUndef EXCEPT !.t = "-Infinity"]
JStr(s) == [JUndef EXCEPT !.t = "string", !.s = s]
JArr(a) == [JUndef EXCEPT !.t = "array", !.a = a]
\* an object with no field the server looks at
JObj == [JUndef EXCEPT !.t = "object"]
\* the object with the fields f
JObjOf(f) == [JUndef EXCEPT !.t = "object", !.f = f]

\* JavaScript truthiness, as used by `params[0] &&` and `req.body.params ||`
Truthy(v) ==
  CASE v.t = "undefined" -> FALSE
    [] v.t = "null" -> FALSE
    [] v.t = "boolean" -> v.n = 1
    [] v.t = "number" -> v.n # 0
    [] v.t = "NaN" -> FALSE
    [] v.t = "string" -> Len(v.s) > 0
    [] OTHER -> TRUE

\* params[0]: undefined when the array is empty
First(params) == IF Len(params.a) = 0 THEN JUndef ELSE params.a[1]

\* Array.prototype.join(','): null and undefined elements print as ""
RECURSIVE StringOf(_)
RECURSIVE Join(_)
Join(a) ==
  IF Len(a) = 0 THEN <<>>
  ELSE LET h == IF a[1].t \in {"null", "undefined"} THEN <<>> ELSE StringOf(a[1])
       IN IF Len(a) = 1 THEN h ELSE h \o <<",">> \o Join(Tail(a))

\* 10^k
RECURSIVE Pow10(_)
Pow10(k) == IF k = 0 THEN 1 ELSE 10 * Pow10(k - 1)

\* String(x) for the number x = m / 10^scale, m >= 0, between 1e-6 and 1e21:
\* the integer part, and after a point the scale digits of the fraction
DecimalToString(m, scale) ==
  IF scale = 0 THEN NatToString(m)
  ELSE LET frac == NatToString(m % Pow10(scale))
       IN NatToString(m \div Pow10(scale)) \o <<".">>
            \o Rep("0", scale - Len(frac)) \o frac

\* String(v): the coercion RegExp.prototype.test, parseFloat and String
\* apply to their argument
StringOf(v) ==
  CASE v.t = "string" -> v.s
    [] v.t = "number" -> (IF v.n < 0 THEN <<"-">> ELSE <<>>)
                           \o DecimalToString(IF v.n < 0 THEN 0 - v.n ELSE v.n, 0 - v.e)
    [] v.t = "Infinity" -> <<"I", "n", "f", "i", "n", "i", "t", "y">>
    [] v.t = "-Infinity" -> <<"-", "I", "n", "f", "i", "n", "i", "t", "y">>
    [] v.t = "NaN" -> <<"N", "a", "N">>
    [] v.t = "boolean" -> IF v.n = 1 THEN <<"t", "r", "u", "e">>
                                     ELSE <<"f", "a", "l", "s", "e">>
    [] v.t = "null" -> <<"n", "u", "l", "l">>
    [] v.t = "undefined" -> <<"u", "n", "d", "e", "f", "i", "n", "e", "d">>
    [] v.t = "array" -> Join(v.a)
    [] OTHER -> <<"[", "o", "b", "j", "e", "c", "t", " ", "O", "b", "j", "e", "c", "t", "]">>

(***************************************************************************)
(* sanitizeTickerData                                                      *)
(***************************************************************************)
\* s without the white space parseFloat skips at the start of its argument
RECURSIVE trimStart(_)
trimStart(s) == IF s # <<>> /\ s[1] \in {" ", "\t", "\n"} THEN trimStart(Tail(s)) ELSE s

\* how many decimal digits s starts with
RECURSIVE leadingDigits(_)
leadingDigits(s) == IF s # <<>> /\ s[1] \in Digit THEN 1 + leadingDigits(Tail(s)) ELSE 0

\* the value of a sequence of decimal digits
RECURSIVE digitsToNat(_)
digitsToNat(s) ==
  IF s = <<>> THEN 0
  ELSE 10 * digitsToNat(SubSeq(s, 1, Len(s) - 1))
         + (CHOOSE d \in 0..9 : NatToString(d) = <<s[Len(s)]>>)

\* the number sign * m * 10^exp (m >= 0) as a double: beyond 1e308 it is
\* Infinity; otherwise the integer, or the decimal with trailing zeros removed
RECURSIVE toNumber(_, _, _)
toNumber(sign, m, exp) ==
  IF m = 0 THEN JNum(0)
  ELSE IF Len(NatToString(m)) + exp > 309
    THEN IF sign < 0 THEN JNegInfinity ELSE JInfinity
  ELSE IF exp >= 0 THEN JNum(sign * m * Pow10(exp))
  ELSE IF m % 10 = 0 THEN toNumber(sign, m \div 10, exp + 1)
  ELSE JDec(sign * m, 0 - exp)

\* parseFloat on a string: leading white space, a sign, then Infinity or a
\* decimal literal (digits, a point and digits, an exponent); what follows
\* is ignored, and NaN is the result when no literal is found
parseFloatOfString(str) ==
  LET t == trimStart(str)
      signed == t # <<>> /\ t[1] \in {"+", "-"}
      sign == IF t # <<>> /\ t[1] = "-" THEN 0 - 1 ELSE 1
      u == IF signed THEN Tail(t) ELSE t
      ni == leadingDigits(u)
      afterInt == SubSeq(u, ni + 1, Len(u))
      hasDot == afterInt # <<>> /\ afterInt[1] = "."
      nf == IF hasDot THEN leadingDigits(Tail(afterInt)) ELSE 0
      hasLiteral == ni + nf > 0
      afterFrac == IF hasDot THEN SubSeq(afterInt, nf + 2, Len(afterInt)) ELSE afterInt
      hasE == afterFrac # <<>> /\ afterFrac[1] \in {"e", "E"}
      e1 == IF hasE THEN Tail(afterFrac) ELSE <<>>
      eSign == IF e1 # <<>> /\ e1[1] = "-" THEN 0 - 1 ELSE 1
      e2 == IF e1 # <<>> /\ e1[1] \in {"+", "-"} THEN Tail(e1) ELSE e1
      ne == leadingDigits(e2)
      exp == eSign * digitsToNat(SubSeq(e2, 1, ne))
      m == digitsToNat(SubSeq(u, 1, ni) \o SubSeq(afterInt, 2, nf + 1))
  IN IF Len(u) >= 8 /\ SubSeq(u, 1, 8) = <<"I", "n", "f", "i", "n", "i", "t", "y">>
       THEN IF sign < 0 THEN JNegInfinity ELSE JInfinity
     ELSE IF ~hasLiteral THEN [JUndef EXCEPT !.t = "NaN"]
     ELSE toNumber(sign, m, exp - nf)

\* parseFloat(v): the argument is converted to a string first
parseFloat(v) == parseFloatOfString(StringOf(v))

\* escapeHtml replacing the characters by entities instead of removing them
RECURSIVE escapeHtml(_)
escapeHtml(s) ==
  IF s = <<>> THEN <<>>
  ELSE (CASE s[1] = "<" -> <<"&", "l", "t", ";">>
          [] s[1] = ">" -> <<"&", "g", "t", ";">>
          [] s[1] = "&" -> <<"&", "a", "m", "p", ";">>
          [] OTHER -> <<s[1]>>) \o escapeHtml(Tail(s))

\* .replace(/[<>&"']/g, '')
RECURSIVE stripHtml(_)
stripHtml(s) ==
  IF s = <<>> THEN <<>>
  ELSE (IF s[1] \in {"<", ">", "&", "\"", "'"} THEN <<>> ELSE <<s[1]>>) \o stripHtml(Tail(s))

\* allowedFields with the time stamp of the record let through
allowedFieldsAndTimestamp ==
  {"ticker_id", "last_price", "high", "low", "base_volume", "target_volume",
   "quote_volume", "bid", "ask", "timestamp"}

\* const allowedFields = [...]
allowedFields ==
  {"ticker_id", "last_price", "high", "low", "base_volume", "target_volume",
   "quote_volume", "bid", "ask"}

\* the fields the inner `includes` test sends through parseFloat
numericFields ==
  {"last_price", "high", "low", "base_volume", "target_volume", "quote_volume", "bid", "ask"}

\* isNaN(num)
isNaN(num) == num.t = "NaN"

\* const num = parseFloat(data[field]); sanitized[field] = isNaN(num) ? 0 : num
sanitizedNumber(v) ==
  LET num == parseFloat(v) IN IF isNaN(num) THEN JNum(0) ELSE num

\* function sanitizeTickerData(data): null for a falsy value and for a value
\* whose typeof is not 'object'; arrays are objects without any of the fields
sanitizeTickerData(data) ==
  IF ~Truthy(data) \/ data.t \notin {"object", "array"} THEN JNull
  ELSE JObjOf([field \in allowedFields \cap DOMAIN data.f |->
                 IF field \in numericFields
                   THEN sanitizedNumber(data.f[field])
                   ELSE JStr(stripHtml(StringOf(data.f[field])))])

(***************************************************************************)
(* validateRpcParams                                                       *)
(***************************************************************************)
\* /^[a-fA-F0-9]{64}$/.test(v)
TestHash64(v) ==
  LET s == StringOf(v) IN Len(s) = 64 /\ \A i \in 1..Len(s) : s[i] \in HexChar

\* /^(S|8|s2)[a-zA-Z0-9]{25,90}$/.test(v)
TestAddress(v) ==
  LET s == StringOf(v)
      Tail1 == \A i \in 2..Len(s) : s[i] \in AlnumChar
      Tail2 == \A i \in 3..Len(s) : s[i] \in AlnumChar
  IN \/ Len(s) >= 1 /\ s[1] \in {"S", "8"} /\ Len(s) - 1 \in 25..90 /\ Tail1
     \/ Len(s) >= 2 /\ s[1] = "s" /\ s[2] = "2" /\ Len(s) - 2 \in 25..90 /\ Tail2

\* /^[a-fA-F0-9]+$/.test(v)
TestHex(v) ==
  LET s == StringOf(v) IN Len(s) >= 1 /\ \A i \in 1..Len(s) : s[i] \in HexChar

getblockchaininfo == <<"g","e","t","b","l","o","c","k","c","h","a","i","n","i","n","f","o">>
getblockcount == <<"g","e","t","b","l","o","c","k","c","o","u","n","t">>
getbestblockhash == <<"g","e","t","b","e","s","t","b","l","o","c","k","h","a","s","h">>
getblock == <<"g","e","t","b","l","o","c","k">>
getrawtransaction == <<"g","e","t","r","a","w","t","r","a","n","s","a","c","t","i","o","n">>
sendrawtransaction == <<"s","e","n","d","r","a","w","t","r","a","n","s","a","c","t","i","o","n">>
estimatesmartfee == <<"e","s","t","i","m","a","t","e","s","m","a","r","t","f","e","e">>
scantxoutset == <<"s","c","a","n","t","x","o","u","t","s","e","t">>
createrawtransaction == <<"c","r","e","a","t","e","r","a","w","t","r","a","n","s","a","c","t","i","o","n">>
signrawtransactionwithkey == <<"s","i","g","n","r","a","w","t","r","a","n","s","a","c","t","i","o","n","w","i","t","h","k","e","y">>
decoderawtransaction == <<"d","e","c","o","d","e","r","a","w","t","r","a","n","s","a","c","t","i","o","n">>
validateaddress == <<"v","a","l","i","d","a","t","e","a","d","d","r","e","s","s">>
getaddressinfo == <<"g","e","t","a","d","d","r","e","s","s","i","n","f","o">>

\* function validateRpcParams(method, params)
validateRpcParams(method, params) ==
  IF params.t # "array" THEN FALSE
  ELSE CASE method \in {getblock, getrawtransaction} ->
              ~(Truthy(First(params)) /\ ~TestHash64(First(params)))
         [] method \in {validateaddress, getaddressinfo} ->
              ~(Truthy(First(params)) /\ ~TestAddress(First(params)))
         [] method = sendrawtransaction ->
              ~(Truthy(First(params)) /\ ~TestHex(First(params)))
         [] OTHER -> TRUE

(***************************************************************************)
(* Configuration and state                                                 *)
(***************************************************************************)
\* the four limiters of server.js
Limiters == {"general", "api", "download", "rpc"}

\* rateLimit({ windowMs })
windowMs(lim) ==
  CASE lim = "general" -> 15 * 60 * 1000
    [] lim = "api" -> 1 * 60 * 1000
    [] lim = "download" -> 15 * 60 * 1000
    [] lim = "rpc" -> 1 * 60 * 1000

\* rateLimit({ max })
max(lim) ==
  CASE lim = "general" -> 200
    [] lim = "api" -> 60
    [] lim = "download" -> 20
    [] lim = "rpc" -> 30

\* rateLimit({ message }): the general and download messages are bare strings
message(lim) ==
  CASE lim = "general" -> "Too many requests from this IP, please try again later."
    [] lim = "api" -> "Too many API requests, please slow down."
    [] lim = "download" -> "Too many download requests, please try again later."
    [] lim = "rpc" -> "Too many RPC requests, please slow down."

\* rate-limit keys (req.ip) the model's clients use
Keys == {"10.0.0.1"}

\* the addresses of the clients behind the reverse proxy, and every address
\* that can show up as req.ip
Clients == {"10.0.0.1", "10.0.0.2"}
Addresses == Keys \cup Clients \cup {"6.6.6.6"}

VARIABLES
  RPC_CONFIG,  \* user and password read from the environment at startup
  hits,        \* hits[lim][key]: totalHits of the limiter's store
  resetTime,   \* resetTime[lim][key]: end of the key's current window (ms)
  now,         \* Date.now() in ms
  ticks,       \* number of clock advances so far
  target,      \* the route the client of this behaviour requests
  conn,        \* who sent the request being served, and through which header
  ticker,      \* a value given to sanitizeTickerData, and what it returned
  other,       \* a second request in flight, whose callbacks are not running
  cur          \* the request being served and what has been answered to it

vars == <<RPC_CONFIG, hits, resetTime, now, ticks, target, conn, ticker, other, cur>>

(***************************************************************************)
(* express-rate-limit middleware                                          *)
(***************************************************************************)
\* the key's window has elapsed (or the key is new): the store resets it
windowElapsed(lim, key) == resetTime[lim][key] <= now

\* totalHits returned by store.increment(key)
totalHits(lim, key) == IF windowElapsed(lim, key) THEN 1 ELSE hits[lim][key] + 1

\* resetTime after store.increment(key)
nextResetTime(lim, key) ==
  IF windowElapsed(lim, key) THEN now + windowMs(lim) ELSE resetTime[lim][key]

\* limitReached with an off-by-one comparison
limitReachedAtMax(lim, key) == totalHits(lim, key) >= max(lim)

\* the middleware answers 429 instead of calling next()
limitReached(lim, key) == totalHits(lim, key) > max(lim)

\* the stores after the limiters in `reached` have counted one request of key
countHit(f, reached, key) ==
  [lim \in Limiters |->
     IF lim \in reached THEN [f[lim] EXCEPT ![key] = totalHits(lim, key)] ELSE f[lim]]

countReset(f, reached, key) ==
  [lim \in Limiters |->
     IF lim \in reached THEN [f[lim] EXCEPT ![key] = nextResetTime(lim, key)] ELSE f[lim]]

(***************************************************************************)
(* Responses                                                               *)
(***************************************************************************)
NoOrigin == "<no Origin header>"
NoHeader == "<no header>"

\* what a middleware chain produced for one request:
\*   status     HTTP status sent, 0 while the request awaits the upstream
\*   error      the error text sent ("" when the body is not an error)
\*   json       the body was sent with res.json (a JSON object)
\*   acao       the Access-Control-Allow-Origin header of the response
\*   checks     the checks the request went through, in order
\*   validated  validateRpcParams was invoked
\*   sent       the payloads written to the backend node
\*   counted    the limiters that counted the request
Response(status, error, json, acao, checks, validated, sent, counted) ==
  [status |-> status, error |-> error, json |-> json, acao |-> acao,
   checks |-> checks, validated |-> validated, sent |-> sent, counted |-> counted]

(***************************************************************************)
(* POST /rpc                                                               *)
(***************************************************************************)
\* const allowedOrigins = [...]
allowedOrigins == {"https://sha256coin.eu", "https://www.sha256coin.eu"}

\* corsHeader echoing whatever Origin the request carries
corsHeaderAny(origin) == origin

\* if (allowedOrigins.includes(origin)) res.setHeader('Access-Control-Allow-Origin', origin)
corsHeader(origin) == IF origin \in allowedOrigins THEN origin ELSE NoHeader

\* allowedMethods with a node-control method added to the list
allowedMethodsWithStop ==
  {getblockchaininfo, getblockcount, getbestblockhash, getblock, getrawtransaction,
   sendrawtransaction, estimatesmartfee, scantxoutset, createrawtransaction,
   signrawtransactionwithkey, decoderawtransaction, validateaddress, getaddressinfo,
   <<"s","t","o","p">>}

\* const allowedMethods = [...]
allowedMethods ==
  {getblockchaininfo, getblockcount, getbestblockhash, getblock, getrawtransaction,
   sendrawtransaction, estimatesmartfee, scantxoutset, createrawtransaction,
   signrawtransactionwithkey, decoderawtransaction, validateaddress, getaddressinfo}

\* methodAllowed matching a listed name as a prefix of the method
methodAllowedByPrefix(method) ==
  \E m \in {getblockchaininfo, getblockcount, getbestblockhash, getblock, getrawtransaction,
             sendrawtransaction, estimatesmartfee, scantxoutset, createrawtransaction,
             signrawtransactionwithkey, decoderawtransaction, validateaddress, getaddressinfo} :
    Len(method) >= Len(m) /\ SubSeq(method, 1, Len(m)) = m

\* allowedMethods.includes(method)
methodAllowed(method) == method \in allowedMethods

\* credentialsConfigured looking at the user only
credentialsUserOnly == Truthy(RPC_CONFIG.user)

\* !(!RPC_CONFIG.user || !RPC_CONFIG.password)
credentialsConfigured == Truthy(RPC_CONFIG.user) /\ Truthy(RPC_CONFIG.password)

\* express.json({ limit: '100kb' }) in strict mode: a body that is not valid
\* JSON, whose top level is not an object or array, or that is larger than
\* the limit makes the parser call next(err)
jsonParserFails(body) == body.kind \in {"malformed", "primitive", "toolarge"}

\* req.body.method, undefined unless the parsed body is an object that has it
bodyMethod(body) == IF body.kind = "object" THEN body.method ELSE JUndef

\* req.body.params
bodyParams(body) == IF body.kind = "object" THEN body.params ELSE JUndef

\* !(!req.body || typeof req.body.method !== 'string')
hasStringMethod(body) == bodyMethod(body).t = "string"

\* paramsOrEmpty without the `|| []` default
paramsNoDefault(body) == bodyParams(body)

\* req.body.params || []
paramsOrEmpty(body) == IF Truthy(bodyParams(body)) THEN bodyParams(body) ELSE JArr(<<>>)

\* JSON.stringify(value) as the reader of the text parses it: Infinity,
\* -Infinity and NaN are written as null, inside arrays and objects too
RECURSIVE jsonStringify(_)
jsonStringify(v) ==
  CASE v.t \in {"Infinity", "-Infinity", "NaN"} -> JNull
    [] v.t = "array" -> JArr([i \in 1..Len(v.a) |-> jsonStringify(v.a[i])])
    [] v.t = "object" -> JObjOf([k \in DOMAIN v.f |-> jsonStringify(v.f[k])])
    [] OTHER -> v

\* rpcRequest with the version of JSON-RPC that browsers' clients speak
rpcRequestV2(method, params) ==
  [jsonrpc |-> "2.0", id |-> "web-wallet", method |-> method,
   params |-> jsonStringify(params)]

\* JSON.stringify({ jsonrpc: '1.0', id: 'web-wallet', method: method, params: params }),
\* as the node parses it
rpcRequest(method, params) ==
  [jsonrpc |-> "1.0", id |-> "web-wallet", method |-> method,
   params |-> jsonStringify(params)]

\* const auth = Buffer.from(`${RPC_CONFIG.user}:${RPC_CONFIG.password}`)
\*                .toString('base64'): kept as the text it encodes
auth == StringOf(RPC_CONFIG.user) \o <<":">> \o StringOf(RPC_CONFIG.password)

\* what http.request(options, ...) and rpcReq.write(rpcRequest) put on the
\* wire: the fields of the JSON body, and the Authorization header
\* `Basic ${auth}`
outbound(method, params) ==
  rpcRequest(method, params) @@ [Authorization |-> [scheme |-> "Basic", base64of |-> auth]]

\* the route handler of app.post('/rpc', rpcLimiter, handler), up to
\* rpcReq.end(); checks and counted are what the chain did before it
rpcHandler(origin, body, checks, counted) ==
  LET acao == corsHeader(origin)
      method == toLowerCase(bodyMethod(body).s)
      params == paramsOrEmpty(body)
      c1 == checks \o <<"cors", "credentials">>
      c2 == Append(c1, "format")
      c3 == Append(c2, "method")
      c4 == Append(c3, "params")
      c5 == Append(c4, "forward")
  IN IF ~credentialsConfigured
       THEN Response(503, "RPC service not configured", TRUE, acao, c1, FALSE, <<>>, counted)
     ELSE IF ~hasStringMethod(body)
       THEN Response(400, "Invalid request format", TRUE, acao, c2, FALSE, <<>>, counted)
     ELSE IF ~methodAllowed(method)
       THEN Response(403, "Method not allowed", TRUE, acao, c3, FALSE, <<>>, counted)
     ELSE IF ~validateRpcParams(method, params)
       THEN Response(400, "Invalid parameters", TRUE, acao, c4, TRUE, <<>>, counted)
     ELSE Response(0, "", TRUE, acao, c5, TRUE, <<outbound(method, params)>>, counted)

\* rpcRoute with the CORS header set before the limiter runs
rpcRouteCorsFirst(key, origin, body, checks, counted) ==
  IF limitReached("rpc", key)
    THEN Response(429, message("rpc"), TRUE, corsHeader(origin), Append(checks, "rpc"),
                  FALSE, <<>>, counted \cup {"rpc"})
    ELSE rpcHandler(origin, body, Append(checks, "rpc"), counted \cup {"rpc"})

\* app.post('/rpc', rpcLimiter, ...): the limiter runs before the handler
rpcRoute(key, origin, body, checks, counted) ==
  IF limitReached("rpc", key)
    THEN Response(429, message("rpc"), TRUE, NoHeader, Append(checks, "rpc"),
                  FALSE, <<>>, counted \cup {"rpc"})
    ELSE rpcHandler(origin, body, Append(checks, "rpc"), counted \cup {"rpc"})

\* app.use(generalLimiter), in front of every route; the sensitive-file
\* block that follows it lets the path /rpc through
generalRoute(key, origin, body, checks, counted) ==
  IF limitReached("general", key)
    THEN Response(429, message("general"), FALSE, NoHeader, Append(checks, "general"),
                  FALSE, <<>>, counted \cup {"general"})
    ELSE rpcRoute(key, origin, body, Append(checks, "general"), counted \cup {"general"})

\* the global error handler: app.use((err, req, res, next) => ...)
errorHandler(checks, counted) ==
  Response(500, "Internal server error", TRUE, NoHeader, checks, FALSE, <<>>, counted)

\* the whole chain for one POST /rpc: express.json first; its error skips
\* every middleware down to the global error handler
postRpc(key, origin, body) ==
  IF jsonParserFails(body)
    THEN errorHandler(<<"body">>, {})
    ELSE generalRoute(key, origin, body, <<"body">>, {})

\* no request has been received yet
NoBody == [kind |-> "none", method |-> JUndef, params |-> JUndef, id |-> JUndef]

\* what the upstream sent as response body, as far as the handlers look at
\* it: kind is the JSON.parse outcome, elems the kinds of the elements of an
\* array, pair what a mapping holds under the key S256_USDT, value the
\* value JSON.parse returns where a handler passes it on
Reply(kind, elems, pair) == [kind |-> kind, elems |-> elems, pair |-> pair, value |-> JUndef]
NoReply == Reply("none", <<>>, "absent")

\* a response body of the node: JSON text that parses to value, or text of
\* a kind that does not parse
RpcReply(kind, value) == [Reply(kind, <<>>, "absent") EXCEPT !.value = value]

\* a request and its response object:
\*   up     state of the upstream request: "none", "open" (written, no
\*          response yet), "receiving" (response callback ran), "hangup"
\*          (destroyed before a response: 'error' is still to be emitted),
\*          "destroyed", "closed"
\*   size   data.length, the characters accumulated by the 'data' handler
\*   sends  how many times a handler called res.status(..).json(..) / res.json
\*   last   the upstream callback that ran last
\*   reply  the body the 'end' handler parsed
\*   detail what the upstream's error object says (err.code)
\*   relayed the value res.json(response) wrote as the body of the 200
\* "aborted" is the state of an upstream response whose connection closed
\* before its end: 'aborted' and 'close' are emitted, for which the handlers
\* register no listener, and neither 'end' nor the request's 'error' follows
NoRequest ==
  [route |-> "none", key |-> "", origin |-> NoOrigin, body |-> NoBody, up |-> "none",
   size |-> 0, sends |-> 0, last |-> "none", reply |-> NoReply,
   detail |-> "", relayed |-> JUndef,
   res |-> Response(0, "", FALSE, NoHeader, <<>>, FALSE, <<>>, {})]

\* sanitizeTickerData has not been called
NoTicker == [raw |-> JUndef, out |-> JUndef, again |-> JUndef, calls |-> 0]

\* nobody is connected
NoConn == [client |-> "", forwarded |-> <<>>]

\* no request is being served
Idle == cur.route = "none"

\* the limiters let the model's client go MaxOver requests beyond their max
WithinCap(key) == \A lim \in Limiters : totalHits(lim, key) <= max(lim) + MaxOver

(***************************************************************************)
(* Callbacks of the upstream request of POST /rpc                          *)
(***************************************************************************)
\* res.status(status).json({ error }) called from a callback named last,
\* which leaves the upstream request in state up: the client gets the first
\* response only
answer(last, up, status, error) ==
  [cur EXCEPT !.up = up, !.last = last, !.sends = @ + 1,
              !.res.status = IF cur.sends = 0 THEN status ELSE @,
              !.res.error = IF cur.sends = 0 THEN error ELSE @]

\* the state of the upstream request after destroy(): destroyed before a
\* response arrived, the request still emits 'error' (socket hang up)
afterDestroy == IF cur.up = "open" THEN "hangup" ELSE "destroyed"

\* tooLarge with the bound itself counted as too large
tooLargeAtBound(route, size) ==
  IF route = "rpc" THEN size >= 10000000 ELSE size >= 1000000

\* data.length > 10000000 (POST /rpc), data.length > 1000000 (price proxies)
tooLarge(route, size) ==
  IF route = "rpc" THEN size > 10000000 ELSE size > 1000000

\* the callback of http.request: the response headers arrived, data = ''
RpcResponse ==
  /\ cur.route = "rpc" /\ cur.up = "open"
  /\ cur' = [cur EXCEPT !.up = "receiving", !.last = "response", !.size = 0]
  /\ UNCHANGED <<RPC_CONFIG, hits, resetTime, now, ticks, target, conn, ticker, other>>

\* RpcResData with one buffer for all requests: `data` declared outside the
\* handler, so that the chunk is appended for the other request too
RpcResDataShared(n) ==
  /\ cur.route = "rpc" /\ cur.up = "receiving"
  /\ ~tooLarge("rpc", cur.size)
  /\ cur' = IF tooLarge("rpc", cur.size + n)
              THEN [answer("data", "destroyed", 500, "Response too large")
                      EXCEPT !.size = cur.size + n]
              ELSE [cur EXCEPT !.size = cur.size + n, !.last = "data"]
  /\ other' = IF other.up = "receiving" THEN [other EXCEPT !.size = @ + n] ELSE other
  /\ UNCHANGED <<RPC_CONFIG, hits, resetTime, now, ticks, target, conn, ticker>>

\* rpcRes.on('data'): a chunk of n characters; `let data = ''` (line 372) is
\* a variable of the response callback of this request
RpcResData(n) ==
  /\ cur.route = "rpc" /\ cur.up = "receiving"
  /\ ~tooLarge("rpc", cur.size)
  /\ cur' = IF tooLarge("rpc", cur.size + n)
              THEN [answer("data", "destroyed", 500, "Response too large")
                      EXCEPT !.size = cur.size + n]
              ELSE [cur EXCEPT !.size = cur.size + n, !.last = "data"]
  /\ UNCHANGED <<RPC_CONFIG, hits, resetTime, now, ticks, target, conn, ticker, other>>

\* kinds of response body JSON.parse throws on: the empty string, a page of
\* HTML, JSON cut off in the middle
Unparseable == {"empty", "html", "truncated"}

\* RpcResEnd relaying the value wrapped in an array
RpcResEndWrapped(reply) ==
  /\ cur.route = "rpc" /\ cur.up = "receiving"
  /\ cur.size = 0 <=> reply.kind = "empty"
  /\ cur' = IF reply.kind \notin Unparseable
              THEN [answer("end", "closed", 200, "")
                      EXCEPT !.reply = reply, !.relayed = JArr(<<jsonStringify(reply.value)>>)]
              ELSE [answer("end", "closed", 500, "Invalid RPC response") EXCEPT !.reply = reply]
  /\ UNCHANGED <<RPC_CONFIG, hits, resetTime, now, ticks, target, conn, ticker, other>>

\* rpcRes.on('end'): the data parses as JSON and res.json(response) relays
\* the value, or it does not parse; the empty string, and nothing else, has
\* no characters
RpcResEnd(reply) ==
  /\ cur.route = "rpc" /\ cur.up = "receiving"
  /\ cur.size = 0 <=> reply.kind = "empty"
  /\ cur' = IF reply.kind \notin Unparseable
              THEN [answer("end", "closed", 200, "")
                      EXCEPT !.reply = reply, !.relayed = jsonStringify(reply.value)]
              ELSE [answer("end", "closed", 500, "Invalid RPC response") EXCEPT !.reply = reply]
  /\ UNCHANGED <<RPC_CONFIG, hits, resetTime, now, ticks, target, conn, ticker, other>>

\* the connection of the node closes after the response headers, before the
\* body ends: no listener of the handler runs
RpcResAborted ==
  /\ cur.route = "rpc" /\ cur.up = "receiving"
  /\ cur' = [cur EXCEPT !.up = "aborted", !.last = "aborted"]
  /\ UNCHANGED <<RPC_CONFIG, hits, resetTime, now, ticks, target, conn, ticker, other>>

\* RpcReqError sending the request to the node once more
RpcReqErrorRetry(err) ==
  /\ cur.route = "rpc" /\ cur.up \in {"open", "receiving", "hangup"}
  /\ cur' = [cur EXCEPT !.up = "open", !.last = "error", !.detail = err,
                        !.res.sent = @ \o <<cur.res.sent[1]>>]
  /\ UNCHANGED <<RPC_CONFIG, hits, resetTime, now, ticks, target, conn, ticker, other>>

\* rpcReq.on('error', () => ...): the connection failed with the error err,
\* or the request was destroyed before a response arrived
RpcReqError(err) ==
  /\ cur.route = "rpc" /\ cur.up \in {"open", "receiving", "hangup"}
  /\ cur' = [answer("error", "closed", 500, "RPC connection failed") EXCEPT !.detail = err]
  /\ UNCHANGED <<RPC_CONFIG, hits, resetTime, now, ticks, target, conn, ticker, other>>

\* RpcReqTimeout answering as the error handler does
RpcReqTimeoutAs500 ==
  /\ cur.route = "rpc" /\ cur.up \in {"open", "receiving"}
  /\ cur' = answer("timeout", afterDestroy, 500, "RPC connection failed")
  /\ UNCHANGED <<RPC_CONFIG, hits, resetTime, now, ticks, target, conn, ticker, other>>

\* rpcReq.on('timeout'): rpcReq.destroy(), then 504
RpcReqTimeout ==
  /\ cur.route = "rpc" /\ cur.up \in {"open", "receiving"}
  /\ cur' = answer("timeout", afterDestroy, 504, "RPC timeout")
  /\ UNCHANGED <<RPC_CONFIG, hits, resetTime, now, ticks, target, conn, ticker, other>>

(***************************************************************************)
(* Inputs of the gateway specification                                     *)
(***************************************************************************)
Origins == {"https://sha256coin.eu", "https://www.sha256coin.eu", "https://evil.example", NoOrigin}

\* values of RPC_USER and RPC_PASSWORD in the environment
EnvUsers == {JUndef, JStr(<<"u">>)}
EnvPasswords == {JStr(<<>>), JStr(<<"p">>)}

hash64 == Rep("a", 63) \o <<"F">>
address26 == <<"S">> \o Rep("z", 24) \o <<"9">>
notHex == <<"n", "o", "t", "-", "6", "4", "-", "h", "e", "x">>

\* first parameters that look like block or transaction hashes
HashFirsts ==
  {JStr(hash64), JStr(Rep("0", 64)), JStr(Rep("a", 63)), JStr(Rep("a", 65)),
   JStr(Rep("a", 63) \o <<"g">>), JStr(notHex), JArr(<<JStr(hash64)>>)}

\* first parameters that look like addresses
AddressFirsts ==
  {JStr(address26), JStr(<<"S">> \o Rep("z", 24)), JStr(<<"8">> \o Rep("Q", 90)),
   JStr(<<"8">> \o Rep("Q", 91)), JStr(<<"s", "2">> \o Rep("b", 25)),
   JStr(<<"s">> \o Rep("b", 26)), JStr(<<"X">> \o Rep("z", 30)),
   JStr(<<"S">> \o Rep("z", 24) \o <<"<">>), JArr(<<JStr(address26)>>)}

\* first parameters that look like raw transactions
HexFirsts ==
  {JStr(<<"0">>), JStr(<<"d", "e", "a", "d", "B", "E", "E", "F">>),
   JStr(<<"x", "y", "z">>), JStr(<<"0", "x", "0", "0">>), JNum(5), JNum(-5),
   JArr(<<JStr(<<"a", "b">>)>>), JArr(<<JStr(<<"a">>), JStr(<<"b">>)>>)}

\* first parameters of no particular shape
OtherFirsts ==
  {JStr(<<>>), JNum(0), JBool(FALSE), JBool(TRUE), JNull, JObj, JArr(<<>>)}

\* values of the params field that are not arrays
NonArrayParams ==
  {JUndef, JNull, JNum(0), JNum(7), JStr(<<>>), JStr(hash64), JBool(FALSE), JBool(TRUE), JObj}

ArraysOf(firsts) == {JArr(<<v>>) : v \in firsts} \cup {JArr(<<>>)}

\* method names in other spellings, and names outside the allow-list
OtherMethods ==
  {<<"G","e","t","B","l","o","c","k">>, <<"G","E","T","B","L","O","C","K">>,
   <<"g","e","t","b","l","o","c","KELVIN">>, <<"s","t","o","p">>,
   <<"d","u","m","p","p","r","i","v","k","e","y">>, <<"g","e","t","b","l","o","c","k"," ">>,
   <<>>}

ObjectBody(method, params, id) ==
  [kind |-> "object", method |-> method, params |-> params, id |-> id]

\* request bodies: a JSON object, or one of the other kinds of body
\* ("none": no JSON body at all, parsed as {}); the last one has the params
\* [1,1e999], whose second number express.json parses as Infinity
Bodies ==
  {[NoBody EXCEPT !.kind = k] : k \in {"malformed", "primitive", "toolarge", "none", "array"}}
  \cup {ObjectBody(m, JUndef, JUndef) : m \in {JUndef, JNull, JNum(1), JArr(<<JStr(getblock)>>)}}
  \cup {ObjectBody(JStr(m), p, JUndef) :
          m \in {getblock, getrawtransaction, validateaddress, getaddressinfo,
                 sendrawtransaction, getblockcount},
          p \in NonArrayParams \cup ArraysOf(OtherFirsts \cup HashFirsts \cup AddressFirsts \cup HexFirsts)}
  \cup {ObjectBody(JStr(m), p, JUndef) :
          m \in allowedMethods \cup OtherMethods,
          p \in {JUndef, JArr(<<JStr(hash64)>>), JArr(<<JStr(notHex)>>), JNum(7)}}
  \cup {ObjectBody(JStr(getblockcount), JArr(<<>>), JNum(42)),
        ObjectBody(JStr(getblockcount), JArr(<<JNum(1), JInfinity>>), JUndef)}

(***************************************************************************)
(* The other routes, as far as the limiters are concerned                  *)
(***************************************************************************)
\* express.static found a file for the path and served it
staticServed(checks, counted) ==
  Response(200, "", FALSE, NoHeader, Append(checks, "static"), FALSE, <<>>, counted)

\* app.use((req, res) => res.status(404).json({ error: 'Not found' }))
notFound(checks, counted) ==
  Response(404, "Not found", TRUE, NoHeader, Append(checks, "404"), FALSE, <<>>, counted)

\* app.get('/api/price-...', apiLimiter, handler): the handler issues
\* https.get and answers from its callbacks
priceRoute(key, checks, counted) ==
  IF limitReached("api", key)
    THEN Response(429, message("api"), TRUE, NoHeader, Append(checks, "api"),
                  FALSE, <<>>, counted \cup {"api"})
    ELSE Response(0, "", TRUE, NoHeader, Append(checks, "api") \o <<"fetch">>,
                  FALSE, <<>>, counted \cup {"api"})

\* the chain for GET /api/price-klingex and GET /api/price-rabidrabbit
getPrice(key) ==
  IF limitReached("general", key)
    THEN Response(429, message("general"), FALSE, NoHeader, <<"body", "general">>,
                  FALSE, <<>>, {"general"})
    ELSE priceRoute(key, <<"body", "general">>, {"general"})

\* app.use('/downloads', downloadLimiter), registered after express.static
downloadRoute(key, checks, counted) ==
  IF limitReached("download", key)
    THEN Response(429, message("download"), FALSE, NoHeader, Append(checks, "download"),
                  FALSE, <<>>, counted \cup {"download"})
    ELSE notFound(Append(checks, "download"), counted \cup {"download"})

\* the chain for GET /downloads/<file>
getDownload(key, exists) ==
  IF limitReached("general", key)
    THEN Response(429, message("general"), FALSE, NoHeader, <<"body", "general">>,
                  FALSE, <<>>, {"general"})
    ELSE IF exists THEN staticServed(<<"body", "general">>, {"general"})
    ELSE downloadRoute(key, <<"body", "general", "static">>, {"general"})

\* the chain for GET of any other path that no route handles
getPage(key, exists) ==
  IF limitReached("general", key)
    THEN Response(429, message("general"), FALSE, NoHeader, <<"body", "general">>,
                  FALSE, <<>>, {"general"})
    ELSE IF exists THEN staticServed(<<"body", "general">>, {"general"})
    ELSE notFound(<<"body", "general", "static">>, {"general"})

\* the chain for a path that contains a blocked pattern (.env, .git, ...):
\* res.status(403).json({ error: 'Access denied' })
getBlocked(key) ==
  IF limitReached("general", key)
    THEN Response(429, message("general"), FALSE, NoHeader, <<"body", "general">>,
                  FALSE, <<>>, {"general"})
    ELSE Response(403, "Access denied", TRUE, NoHeader, <<"body", "general", "blocked">>,
                  FALSE, <<>>, {"general"})

\* app.options('/rpc', ...): the same Access-Control-Allow-Origin rule, 204
optionsHandler(origin, checks, counted) ==
  Response(204, "", FALSE, corsHeader(origin), Append(checks, "cors"), FALSE, <<>>, counted)

\* the chain for OPTIONS /rpc
optionsRpc(key, origin, body) ==
  IF jsonParserFails(body) THEN errorHandler(<<"body">>, {})
  ELSE IF limitReached("general", key)
    THEN Response(429, message("general"), FALSE, NoHeader, <<"body", "general">>,
                  FALSE, <<>>, {"general"})
    ELSE optionsHandler(origin, <<"body", "general">>, {"general"})

\* the server takes a request of the given route and runs its chain; a
\* response the chain sends itself counts as one send
Dispatch(route, key, origin, body, r) ==
  /\ Idle
  /\ cur' = [NoRequest EXCEPT !.route = route, !.key = key, !.origin = origin,
                              !.body = body, !.res = r,
                              !.up = IF r.status = 0 THEN "open" ELSE "none",
                              !.sends = IF r.status = 0 THEN 0 ELSE 1]
  /\ hits' = countHit(hits, r.counted, key)
  /\ resetTime' = countReset(resetTime, r.counted, key)
  /\ UNCHANGED <<RPC_CONFIG, now, ticks, target, ticker, other>>

\* a request of a client that connects to the server directly
Serve(route, key, origin, body, r) ==
  /\ Dispatch(route, key, origin, body, r)
  /\ UNCHANGED conn

\* app.set('trust proxy', true): every hop is trusted, so req.ip is the
\* leftmost entry of X-Forwarded-For, or the peer when there is no header
reqIp(peer, forwarded) == IF forwarded = <<>> THEN peer ELSE forwarded[1]

\* the reverse proxy in front of the server (nginx, cloudflare) appends the
\* address of the client to the X-Forwarded-For header the client supplied
proxyForwardedFor(client, supplied) == Append(supplied, client)

\* the address the reverse proxy connects from
ProxyPeer == "127.0.0.1"

\* a client sends GET /downloads/<file>, for a file that does not exist,
\* through the reverse proxy
ProxiedDownload(client, supplied) ==
  LET forwarded == proxyForwardedFor(client, supplied)
      key == reqIp(ProxyPeer, forwarded)
  IN /\ Dispatch("download", key, NoOrigin, NoBody, getDownload(key, FALSE))
     /\ conn' = [client |-> client, forwarded |-> forwarded]

\* a client sends POST /rpc
PostRpc(key, origin, body) == Serve("rpc", key, origin, body, postRpc(key, origin, body))

\* a client sends GET /api/price-klingex or GET /api/price-rabidrabbit
GetPrice(key, exchange) == Serve(exchange, key, NoOrigin, NoBody, getPrice(key))

\* a client sends GET /downloads/<file>
GetDownload(key, exists) ==
  Serve("download", key, NoOrigin, NoBody, getDownload(key, exists))

\* a client sends GET for another path
GetPage(key, exists) == Serve("page", key, NoOrigin, NoBody, getPage(key, exists))

\* a client sends GET for a path that contains one of the blocked patterns
GetBlocked(key) == Serve("blocked", key, NoOrigin, NoBody, getBlocked(key))

\* a client sends OPTIONS /rpc
OptionsRpc(key, origin, body) ==
  Serve("options", key, origin, body, optionsRpc(key, origin, body))

(***************************************************************************)
(* Callbacks of https.get in the two price handlers                        *)
(***************************************************************************)
IsPrice == cur.route \in {"klingex", "rabidrabbit"}

\* tickers.find(t => t.ticker_id === 'S256_USDT') over the elements from
\* position i: "found", "absent", or "throws" when an element before the
\* match is null (null.ticker_id)
RECURSIVE find(_, _)
find(elems, i) ==
  IF i > Len(elems) THEN "absent"
  ELSE IF elems[i] = "null" THEN "throws"
  ELSE IF elems[i] = "pair" THEN "found"
  ELSE find(elems, i + 1)

\* sanitizeTickerData(data) returns null: !data || typeof data !== 'object'
\* (typeof [] is 'object')
sanitizedIsNull(kind) == kind \notin {"object", "array"}

\* res.json(sanitizeTickerData(t) || { error: 'S256_USDT not found' })
tickerOrNotFound(kind) ==
  IF sanitizedIsNull(kind) THEN <<200, "S256_USDT not found">> ELSE <<200, "">>

\* the 'end' handler of /api/price-klingex: status and error it answers
klingexEnd(reply) ==
  IF reply.kind \in Unparseable THEN <<500, "Failed to process response">>
  ELSE IF reply.kind # "array" THEN <<500, "Invalid response format">>
  ELSE IF find(reply.elems, 1) = "throws" THEN <<500, "Failed to process response">>
  ELSE IF find(reply.elems, 1) = "found" THEN tickerOrNotFound("object")
  ELSE tickerOrNotFound("undefined")

\* the 'end' handler of /api/price-rabidrabbit: typeof null and typeof []
\* are 'object'; null['S256_USDT'] throws
rabidrabbitEnd(reply) ==
  IF reply.kind \in Unparseable THEN <<500, "Failed to process response">>
  ELSE IF reply.kind \notin {"object", "array", "null"} THEN <<500, "Invalid response format">>
  ELSE IF reply.kind = "null" THEN <<500, "Failed to process response">>
  ELSE IF reply.kind = "array" THEN tickerOrNotFound("undefined")
  ELSE tickerOrNotFound(IF reply.pair = "absent" THEN "undefined" ELSE reply.pair)

\* the callback of https.get: the response headers arrived, data = ''
PriceResponse ==
  /\ IsPrice /\ cur.up = "open"
  /\ cur' = [cur EXCEPT !.up = "receiving", !.last = "response", !.size = 0]
  /\ UNCHANGED <<RPC_CONFIG, hits, resetTime, now, ticks, target, conn, ticker, other>>

\* apiRes.on('data'): a chunk of n characters
PriceResData(n) ==
  /\ IsPrice /\ cur.up = "receiving"
  /\ ~tooLarge(cur.route, cur.size)
  /\ cur' = IF tooLarge(cur.route, cur.size + n)
              THEN [answer("data", "destroyed", 500, "Response too large")
                      EXCEPT !.size = cur.size + n]
              ELSE [cur EXCEPT !.size = cur.size + n, !.last = "data"]
  /\ UNCHANGED <<RPC_CONFIG, hits, resetTime, now, ticks, target, conn, ticker, other>>

\* apiRes.on('end'): the data is what reply describes; the empty string,
\* and nothing else, has no characters
PriceResEnd(reply) ==
  /\ IsPrice /\ cur.up = "receiving"
  /\ cur.size = 0 <=> reply.kind = "empty"
  /\ LET r == IF cur.route = "klingex" THEN klingexEnd(reply) ELSE rabidrabbitEnd(reply)
     IN cur' = [answer("end", "closed", r[1], r[2]) EXCEPT !.reply = reply]
  /\ UNCHANGED <<RPC_CONFIG, hits, resetTime, now, ticks, target, conn, ticker, other>>

\* the connection of the exchange closes after the response headers, before
\* the body ends: no listener of the handler runs
PriceResAborted ==
  /\ IsPrice /\ cur.up = "receiving"
  /\ cur' = [cur EXCEPT !.up = "aborted", !.last = "aborted"]
  /\ UNCHANGED <<RPC_CONFIG, hits, resetTime, now, ticks, target, conn, ticker, other>>

\* PriceReqError passing the message of the error on to the client
PriceReqErrorVerbose(err) ==
  /\ IsPrice /\ cur.up \in {"open", "receiving", "hangup"}
  /\ cur' = [answer("error", "closed", 500, err) EXCEPT !.detail = err]
  /\ UNCHANGED <<RPC_CONFIG, hits, resetTime, now, ticks, target, conn, ticker, other>>

\* apiReq.on('error', () => ...): the request failed with the error err
PriceReqError(err) ==
  /\ IsPrice /\ cur.up \in {"open", "receiving", "hangup"}
  /\ cur' = [answer("error", "closed", 500, "Failed to fetch price data") EXCEPT !.detail = err]
  /\ UNCHANGED <<RPC_CONFIG, hits, resetTime, now, ticks, target, conn, ticker, other>>

\* apiReq.on('timeout'): apiReq.destroy(), then 504
PriceReqTimeout ==
  /\ IsPrice /\ cur.up \in {"open", "receiving"}
  /\ cur' = answer("timeout", afterDestroy, 504, "Request timeout")
  /\ UNCHANGED <<RPC_CONFIG, hits, resetTime, now, ticks, target, conn, ticker, other>>

\* the response has been written out and the request is forgotten
Finish ==
  /\ cur.route # "none" /\ cur.res.status # 0
  /\ cur.up \in {"none", "closed", "destroyed"}
  /\ cur' = NoRequest
  /\ conn' = NoConn
  /\ UNCHANGED <<RPC_CONFIG, hits, resetTime, now, ticks, target, ticker, other>>

\* the clock advances by d ms while the server is idle
Tick(d) ==
  /\ Idle
  /\ ticks < MaxTicks
  /\ now' = now + d
  /\ ticks' = ticks + 1
  /\ UNCHANGED <<RPC_CONFIG, hits, resetTime, target, conn, ticker, other, cur>>

(***************************************************************************)
(* The gateway specification: a client sends POST /rpc requests, or        *)
(* OPTIONS /rpc requests, inside one rate-limit window                     *)
(***************************************************************************)
NoHits == [lim \in Limiters |-> [k \in Addresses |-> 0]]

Init ==
  /\ RPC_CONFIG \in [user : EnvUsers, password : EnvPasswords]
  /\ hits = NoHits
  /\ resetTime = NoHits
  /\ now = 0
  /\ ticks = 0
  /\ target \in {"rpc", "options"}
  /\ conn = NoConn
  /\ ticker = NoTicker
  /\ other = NoRequest
  /\ cur = NoRequest

\* the node is down: its connection fails or times out
RpcUpstream ==
  \/ RpcReqError("ECONNRESET")
  \/ RpcReqTimeout

\* bodies of the OPTIONS requests
OptionsBodies ==
  {[NoBody EXCEPT !.kind = k] : k \in {"none", "malformed"}}
  \cup {ObjectBody(JStr(m), JUndef, JUndef) : m \in {getblockcount, <<"s","t","o","p">>}}

Next ==
  \/ /\ Idle
     /\ \E key \in Keys :
          /\ WithinCap(key)
          /\ \/ /\ target = "rpc"
                /\ \E origin \in Origins, body \in Bodies : PostRpc(key, origin, body)
             \/ /\ target = "options"
                /\ \E origin \in Origins, body \in OptionsBodies : OptionsRpc(key, origin, body)
  \/ RpcUpstream
  \/ Finish

Spec == Init /\ [][Next]_vars

(***************************************************************************)
(* The rate-limit specification: a client keeps requesting one class of    *)
(* route while the clock advances                                          *)
(***************************************************************************)
\* the body of every POST /rpc of this specification
RateBody == ObjectBody(JStr(getblockcount), JArr(<<>>), JUndef)

InitRate ==
  /\ RPC_CONFIG = [user |-> JStr(<<"u">>), password |-> JStr(<<"p">>)]
  /\ hits = NoHits
  /\ resetTime = NoHits
  /\ now = 0
  /\ ticks = 0
  /\ target \in {"rpc", "api", "download", "page"}
  /\ conn = NoConn
  /\ ticker = NoTicker
  /\ other = NoRequest
  /\ cur = NoRequest

NextRate ==
  \/ \E key \in Keys :
       /\ Idle /\ WithinCap(key)
       /\ \/ target = "rpc" /\ PostRpc(key, "https://sha256coin.eu", RateBody)
          \/ target = "api" /\ \E x \in {"klingex", "rabidrabbit"} : GetPrice(key, x)
          \/ target = "download" /\ \E exists \in BOOLEAN : GetDownload(key, exists)
          \/ target = "page" /\ \E exists \in BOOLEAN : GetPage(key, exists)
          \/ target = "page" /\ GetBlocked(key)
  \/ RpcUpstream
  \/ PriceReqError("ECONNRESET")
  \/ PriceReqTimeout
  \/ Finish
  \/ \E d \in {windowMs("rpc"), windowMs("general")} : Tick(d)

SpecRate == InitRate /\ [][NextRate]_vars

(***************************************************************************)
(* The upstream specification: a client sends a few requests, the node and *)
(* the exchanges answer in every way the callbacks distinguish             *)
(***************************************************************************)
\* requests the client of this specification sends
MaxRequests == 2

\* chunks the upstreams answer in
RpcChunks == {4000000, 6000000}
PriceChunks == {400000, 600000}

\* what an array of tickers can hold: the record of the pair, another
\* record, null, a number
TickerElems == {"pair", "other", "null", "number"}

\* response bodies of the exchanges
PriceReplies ==
  {Reply(k, <<>>, "absent") : k \in Unparseable \cup {"null", "number", "string", "boolean"}}
  \cup {Reply("array", e, "absent") :
          e \in {<<>>} \cup [1..1 -> TickerElems] \cup [1..2 -> TickerElems]}
  \cup {Reply("object", <<>>, p) : p \in {"absent", "object", "array", "null", "string", "number"}}

\* POST /rpc bodies: forwarded ones and one for each way of being rejected
UpBodies ==
  {[NoBody EXCEPT !.kind = "malformed"],
   ObjectBody(JUndef, JUndef, JUndef),
   ObjectBody(JStr(<<"s","t","o","p">>), JUndef, JUndef),
   ObjectBody(JStr(getblock), JArr(<<JStr(notHex)>>), JUndef),
   ObjectBody(JStr(getblock), JArr(<<JStr(hash64)>>), JUndef),
   ObjectBody(JStr(<<"G","e","t","B","l","o","c","k">>), JArr(<<JStr(hash64)>>), JNum(42)),
   ObjectBody(JStr(getblockcount), JNull, JNum(42)),
   ObjectBody(JStr(getblockcount), JUndef, JUndef)}

\* response bodies of the node: a JSON-RPC result, bare values, a number
\* beyond the range of doubles (1e999, which JSON.parse reads as Infinity)
\* on its own and inside an array, and text that is not JSON
RpcReplies ==
  {RpcReply(k, JUndef) : k \in Unparseable}
  \cup {RpcReply("json", v) :
          v \in {JObjOf(("result" :> JNum(840000)) @@ ("error" :> JNull)
                          @@ ("id" :> JStr(<<"w">>))),
                 JObjOf(("result" :> JNull) @@ ("error" :> JObj) @@ ("id" :> JStr(<<"w">>))),
                 JNull, JNum(5), JStr(<<"o", "k">>), JArr(<<JNum(1), JDec(15, 1)>>),
                 JInfinity, JArr(<<JNum(1), JInfinity>>)}}

\* error codes of a failed upstream connection
UpstreamErrors == {"ECONNREFUSED", "ECONNRESET", "ENOTFOUND"}

\* a callback of the upstream request of the request being served runs
UpstreamCallbacks ==
  \/ RpcResponse
  \/ \E n \in RpcChunks : RpcResData(n)
  \/ \E reply \in RpcReplies : RpcResEnd(reply)
  \/ RpcResAborted
  \/ \E err \in UpstreamErrors : RpcReqError(err)
  \/ RpcReqTimeout
  \/ PriceResponse
  \/ \E n \in PriceChunks : PriceResData(n)
  \/ \E reply \in PriceReplies : PriceResEnd(reply)
  \/ PriceResAborted
  \/ \E err \in UpstreamErrors : PriceReqError(err)
  \/ PriceReqTimeout

InitUp ==
  /\ RPC_CONFIG \in [user : {JStr(<<"u">>)}, password : EnvPasswords]
  /\ hits = NoHits
  /\ resetTime = NoHits
  /\ now = 0
  /\ ticks = 0
  /\ target \in {"rpc", "api"}
  /\ conn = NoConn
  /\ ticker = NoTicker
  /\ other = NoRequest
  /\ cur = NoRequest

NextUp ==
  \/ /\ Idle
     /\ \E key \in Keys :
          /\ totalHits("general", key) < MaxRequests
          /\ \/ /\ target = "rpc"
                /\ \E body \in UpBodies : PostRpc(key, "https://sha256coin.eu", body)
             \/ /\ target = "api"
                /\ \E x \in {"klingex", "rabidrabbit"} : GetPrice(key, x)
  \/ UpstreamCallbacks
  \/ Finish

SpecUp == InitUp /\ [][NextUp]_vars

(***************************************************************************)
(* The concurrency specification: two requests to the proxies are in       *)
(* flight at once, and the event loop runs their callbacks in any order    *)
(***************************************************************************)
\* the event loop turns to the other request in flight: cur is the request
\* whose callback runs next, other the one that waits
Switch ==
  /\ cur.route # "none" \/ other.route # "none"
  /\ cur' = other
  /\ other' = cur
  /\ UNCHANGED <<RPC_CONFIG, hits, resetTime, now, ticks, target, conn, ticker>>

InitTwo ==
  /\ RPC_CONFIG = [user |-> JStr(<<"u">>), password |-> JStr(<<"p">>)]
  /\ hits = NoHits
  /\ resetTime = NoHits
  /\ now = 0
  /\ ticks = 0
  /\ target = "rpc"
  /\ conn = NoConn
  /\ ticker = NoTicker
  /\ other = NoRequest
  /\ cur = NoRequest

\* a request arrives (a POST /rpc that is forwarded or rejected, a GET of a
\* price), a callback of the upstream request of cur runs, the event loop
\* turns to the other request, or the connection of an answered request ends
NextTwo ==
  \/ /\ Idle
     /\ \E key \in Keys :
          /\ totalHits("general", key) <= MaxRequests
          /\ \/ \E body \in {ObjectBody(JStr(getblockcount), JUndef, JUndef),
                              ObjectBody(JStr(getblock), JArr(<<JStr(notHex)>>), JUndef)} :
                  PostRpc(key, "https://sha256coin.eu", body)
             \/ \E x \in {"klingex", "rabidrabbit"} : GetPrice(key, x)
  \/ RpcResponse
  \/ RpcResData(6000000)
  \/ \E reply \in {RpcReply("html", JUndef), RpcReply("json", JNum(5))} : RpcResEnd(reply)
  \/ RpcResAborted
  \/ RpcReqError("ECONNRESET")
  \/ RpcReqTimeout
  \/ PriceResponse
  \/ PriceResData(600000)
  \/ \E reply \in {Reply("html", <<>>, "absent"), Reply("array", <<"pair">>, "absent"),
                    Reply("object", <<>>, "object")} : PriceResEnd(reply)
  \/ PriceResAborted
  \/ PriceReqError("ECONNRESET")
  \/ PriceReqTimeout
  \/ Switch
  \/ Finish

SpecTwo == InitTwo /\ [][NextTwo]_vars

(***************************************************************************)
(* The proxy specification: clients reach the server through one reverse   *)
(* proxy, and send it the X-Forwarded-For header they like                 *)
(***************************************************************************)
\* X-Forwarded-For headers a client sends along
SuppliedHeaders == {<<>>, <<"6.6.6.6">>, <<"10.0.0.2">>}

InitProxy ==
  /\ RPC_CONFIG = [user |-> JStr(<<"u">>), password |-> JStr(<<"p">>)]
  /\ hits = NoHits
  /\ resetTime = NoHits
  /\ now = 0
  /\ ticks = 0
  /\ target = "download"
  /\ conn = NoConn
  /\ ticker = NoTicker
  /\ other = NoRequest
  /\ cur = NoRequest

NextProxy ==
  \/ /\ Idle
     /\ \A key \in Addresses : WithinCap(key)
     /\ \E client \in Clients, supplied \in SuppliedHeaders : ProxiedDownload(client, supplied)
  \/ Finish

SpecProxy == InitProxy /\ [][NextProxy]_vars

(***************************************************************************)
(* The sanitizer specification: sanitizeTickerData is called on a value,   *)
(* and then on what it returned                                            *)
(***************************************************************************)
\* values of a numeric field of a ticker, as JSON.parse delivers them
NumericInputs ==
  {JNum(5), JNum(0), JNum(0 - 3), JDec(15, 1), JDec(12, 5), JInfinity,
   JNull, JBool(TRUE), JObj, JArr(<<>>), JArr(<<JNum(5)>>), JArr(<<JNum(1), JNum(2)>>),
   JStr(<<>>), JStr(<<"a", "b", "c">>), JStr(<<"1", "2", "a", "b", "c">>),
   JStr(<<" ", "4", "2">>), JStr(<<"+", "7">>), JStr(<<"-", "2", ".", "5", "0">>),
   JStr(<<".", "5">>), JStr(<<"5", ".">>), JStr(<<".">>), JStr(<<"1", "e", "3">>),
   JStr(<<"2", "E", "-", "2">>), JStr(<<"1", "e">>), JStr(<<"0", "x", "1", "0">>),
   JStr(<<"1", "e", "9", "9", "9">>), JStr(<<"-", "1", "e", "9", "9", "9">>),
   JStr(<<"I", "n", "f", "i", "n", "i", "t", "y">>),
   JStr(<<"-", "I", "n", "f", "i", "n", "i", "t", "y">>),
   JStr(<<"N", "a", "N">>)}

\* values of the ticker_id field
TickerIds ==
  {JStr(<<"S", "2", "5", "6", "_", "U", "S", "D", "T">>),
   JStr(<<"<", "b", ">", "S", "2", "5", "6", "<", "/", "b", ">">>),
   JStr(<<"a", "&", "b", "\"", "c", "'", "d">>),
   JStr(<<"&", "l", "t", ";">>),
   JNum(7), JNull, JBool(FALSE), JObj, JArr(<<JStr(<<"<", "x", ">">>), JNum(1)>>)}

\* values sanitizeTickerData is called on
RawInputs ==
  {JUndef, JNull, JNum(0), JNum(5), JStr(<<>>), JStr(<<"x">>), JBool(FALSE), JBool(TRUE),
   JArr(<<>>), JArr(<<JNum(1)>>), JObj}
  \cup {JObjOf("ticker_id" :> t) : t \in TickerIds}
  \cup {JObjOf("last_price" :> v) : v \in NumericInputs}
  \cup {JObjOf(("ticker_id" :> t) @@ ("bid" :> v) @@ ("high" :> JNum(2))
                 @@ ("timestamp" :> JNum(1700000000))) :
          t \in TickerIds, v \in NumericInputs}

\* sanitizeTickerData(raw)
Sanitize ==
  /\ ticker.calls = 0
  /\ ticker' = [ticker EXCEPT !.out = sanitizeTickerData(ticker.raw), !.calls = 1]
  /\ UNCHANGED <<RPC_CONFIG, hits, resetTime, now, ticks, target, conn, other, cur>>

\* sanitizeTickerData(sanitizeTickerData(raw))
SanitizeAgain ==
  /\ ticker.calls = 1
  /\ ticker' = [ticker EXCEPT !.again = sanitizeTickerData(ticker.out), !.calls = 2]
  /\ UNCHANGED <<RPC_CONFIG, hits, resetTime, now, ticks, target, conn, other, cur>>

InitSanitize ==
  /\ RPC_CONFIG = [user |-> JStr(<<"u">>), password |-> JStr(<<"p">>)]
  /\ hits = NoHits
  /\ resetTime = NoHits
  /\ now = 0
  /\ ticks = 0
  /\ target = "api"
  /\ conn = NoConn
  /\ ticker \in {[NoTicker EXCEPT !.raw = raw] : raw \in RawInputs}
  /\ other = NoRequest
  /\ cur = NoRequest

NextSanitize ==
  \/ Sanitize
  \/ SanitizeAgain

SpecSanitize == InitSanitize /\ [][NextSanitize]_vars

(***************************************************************************)
(* Properties of the gateway                                               *)
(***************************************************************************)
\* the request being served is a POST /rpc
IsRpc == cur.route = "rpc"

\* the limiters let the request being served through: after counting it,
\* no counter of its key is above its max
NotLimited == \A lim \in cur.res.counted : hits[lim][cur.key] <= max(lim)

\* RPC_USER and RPC_PASSWORD are both set to non-empty values
CredentialsSet == RPC_CONFIG.user.t = "string" /\ Len(RPC_CONFIG.user.s) > 0
                  /\ RPC_CONFIG.password.t = "string" /\ Len(RPC_CONFIG.password.s) > 0

\* the method field of the request being served is a string
StringMethod == cur.body.kind = "object" /\ cur.body.method.t = "string"

\* the 13 method names the gateway may forward
ThirteenMethods ==
  {getblockchaininfo, getblockcount, getbestblockhash, getblock, getrawtransaction,
   sendrawtransaction, estimatesmartfee, scantxoutset, createrawtransaction,
   signrawtransactionwithkey, decoderawtransaction, validateaddress, getaddressinfo}

\* the method name in lower case
LowerMethod == [i \in 1..Len(cur.body.method.s) |-> lowerChar(cur.body.method.s[i])]

\* a string of exactly 64 hexadecimal characters
IsHashString(v) ==
  v.t = "string" /\ Len(v.s) = 64 /\ \A i \in 1..Len(v.s) : v.s[i] \in HexChar

\* a non-empty string of hexadecimal characters
IsHexString(v) ==
  v.t = "string" /\ Len(v.s) > 0 /\ \A i \in 1..Len(v.s) : v.s[i] \in HexChar

\* C1: every payload written to the backend node carries one of the 13
\* allow-listed method names, whatever body the caller sent.
C1_ForwardedMethodAllowed ==
  \A i \in 1..Len(cur.res.sent) : cur.res.sent[i].method \in ThirteenMethods

\* C1 witness: a request whose method the caller spelled GetBlock was forwarded
C1_Witness ==
  /\ IsRpc /\ Len(cur.res.sent) = 1
  /\ cur.body.method.s = <<"G","e","t","B","l","o","c","k">>

\* C2 as stated, for requests no rate limiter rejects: with credentials
\* configured, a string method that is not, as sent, a member of the
\* allow-list is answered 403, validateRpcParams is not invoked and nothing is
\* forwarded.
C2_Original ==
  (IsRpc /\ CredentialsSet /\ NotLimited /\ StringMethod
     /\ cur.body.method.s \notin ThirteenMethods)
    => (cur.res.status = 403 /\ ~cur.res.validated /\ cur.res.sent = <<>>)

\* C2 amended: with credentials configured, a string method whose lower-cased
\* form is not in the allow-list is never validated nor forwarded, and it is
\* answered 403 unless a rate limiter rejected the request, which is then
\* answered 429.
C2_UnlistedMethodRejected ==
  (IsRpc /\ CredentialsSet /\ StringMethod /\ LowerMethod \notin ThirteenMethods)
    => /\ ~cur.res.validated /\ cur.res.sent = <<>>
       /\ cur.res.status = IF NotLimited THEN 403 ELSE 429

\* C2 witness: the method stop, sent with a well-formed hash, was answered 403
C2_Witness ==
  /\ IsRpc /\ CredentialsSet /\ cur.res.status = 403
  /\ cur.body.method = JStr(<<"s","t","o","p">>)
  /\ cur.body.params = JArr(<<JStr(hash64)>>)

\* C3 as stated: for getblock and getrawtransaction a params array passes
\* validateRpcParams only if its first element is a string of exactly 64
\* hexadecimal characters; every other array is answered 400 and not forwarded.
C3_HashRequired ==
  (IsRpc /\ cur.res.validated /\ LowerMethod \in {getblock, getrawtransaction}
     /\ cur.body.params.t = "array" /\ ~IsHashString(First(cur.body.params)))
    => (cur.res.status = 400 /\ cur.res.sent = <<>>)

\* C4 as stated: a sendrawtransaction request is forwarded only if its first
\* parameter is a non-empty string of hexadecimal characters.
C4_HexRequired ==
  \A i \in 1..Len(cur.res.sent) :
    cur.res.sent[i].method = sendrawtransaction
      => IsHexString(First(cur.res.sent[i].params))

\* C5 as stated: for validateaddress and getaddressinfo a request whose first
\* parameter matches the address pattern is forwarded, and one whose first
\* parameter does not match, or is absent, is answered 400 and not forwarded.
C5_AddressRequired ==
  (IsRpc /\ cur.res.validated /\ LowerMethod \in {validateaddress, getaddressinfo}
     /\ cur.body.params.t = "array")
    => IF TestAddress(First(cur.body.params))
         THEN Len(cur.res.sent) = 1
         ELSE cur.res.status = 400 /\ cur.res.sent = <<>>

\* the value with null in the place of every number that is not finite
RECURSIVE NonFiniteAsNull(_)
NonFiniteAsNull(v) ==
  IF v.t \in {"Infinity", "-Infinity", "NaN"} THEN JNull
  ELSE IF v.t = "array" THEN [v EXCEPT !.a = [i \in 1..Len(v.a) |-> NonFiniteAsNull(v.a[i])]]
  ELSE IF v.t = "object" THEN [v EXCEPT !.f = [k \in DOMAIN v.f |-> NonFiniteAsNull(v.f[k])]]
  ELSE v

\* the params field is absent or a falsy value: null, 0, "" or false
FalsyParams ==
  \/ cur.body.params.t \in {"undefined", "null"}
  \/ cur.body.params.t \in {"number", "boolean"} /\ cur.body.params.n = 0
  \/ cur.body.params.t = "string" /\ cur.body.params.s = <<>>

\* C6 as stated, for requests that reach the handler with credentials
\* configured: an allow-listed method with a supplied params value that is not
\* an array is answered 400 {error:'Invalid parameters'} and nothing is
\* forwarded.
C6_Original ==
  (IsRpc /\ CredentialsSet /\ NotLimited /\ StringMethod
     /\ cur.body.method.s \in ThirteenMethods
     /\ cur.body.params.t \notin {"undefined", "array"})
    => (cur.res.status = 400 /\ cur.res.error = "Invalid parameters" /\ cur.res.sent = <<>>)

\* C6 amended: for a request that reaches the handler with credentials
\* configured and an allow-listed method, a truthy params value that is not an
\* array is answered 400 {error:'Invalid parameters'} and nothing is forwarded;
\* a falsy or absent params value is replaced by [] and forwarded as []; every
\* payload written to the backend has an array as params, the caller's own
\* array when the caller supplied one, in which a number beyond the range of
\* doubles is written as null.
C6_NonArrayParams ==
  /\ (IsRpc /\ CredentialsSet /\ NotLimited /\ StringMethod
        /\ LowerMethod \in ThirteenMethods /\ cur.body.params.t # "array")
       => IF FalsyParams
            THEN /\ Len(cur.res.sent) = 1
                 /\ cur.res.sent[1].method = LowerMethod
                 /\ cur.res.sent[1].params = JArr(<<>>)
            ELSE /\ cur.res.status = 400
                 /\ cur.res.error = "Invalid parameters"
                 /\ cur.res.sent = <<>>
  /\ \A i \in 1..Len(cur.res.sent) :
       /\ cur.res.sent[i].params.t = "array"
       /\ cur.body.params.t = "array"
            => cur.res.sent[i].params = NonFiniteAsNull(cur.body.params)

\* C6 witness: getblock with params 7 was answered 400
C6_Witness ==
  /\ IsRpc /\ CredentialsSet /\ cur.res.status = 400
  /\ cur.res.error = "Invalid parameters"
  /\ cur.body.method = JStr(getblock) /\ cur.body.params = JNum(7)

\* the body is one the JSON body parser rejects
UnparsedBody == cur.body.kind \in {"malformed", "primitive", "toolarge"}

C8_BadBodyIs400 ==
  (IsRpc /\ CredentialsSet /\ NotLimited /\ ~StringMethod)
    => (cur.res.status = 400 /\ cur.res.sent = <<>>)

\* position of a check in the order C9 states: CORS, rate, method, params,
\* credentials, forward (0 for the checks it does not name)
C9_ClaimedRank(check) ==
  CASE check = "cors" -> 1
    [] check \in {"general", "rpc"} -> 2
    [] check = "method" -> 3
    [] check = "params" -> 4
    [] check = "credentials" -> 5
    [] check = "forward" -> 6
    [] OTHER -> 0

\* C9 as stated: the checks of a POST /rpc happen in the order CORS, rate,
\* method, params, credentials, forward.
C9_Original ==
  IsRpc => \A i, j \in 1..Len(cur.res.checks) :
             (i < j /\ C9_ClaimedRank(cur.res.checks[i]) > 0
                    /\ C9_ClaimedRank(cur.res.checks[j]) > 0)
               => C9_ClaimedRank(cur.res.checks[i]) <= C9_ClaimedRank(cur.res.checks[j])

\* the order of the checks in the code
C9_CodeOrder ==
  <<"body", "general", "rpc", "cors", "credentials", "format", "method", "params", "forward">>

\* the first check of that order the request being served fails
C9_FirstFailure ==
  IF UnparsedBody THEN "body"
  ELSE IF "general" \in cur.res.counted /\ hits["general"][cur.key] > 200 THEN "general"
  ELSE IF "rpc" \in cur.res.counted /\ hits["rpc"][cur.key] > 30 THEN "rpc"
  ELSE IF ~CredentialsSet THEN "credentials"
  ELSE IF ~StringMethod THEN "format"
  ELSE IF LowerMethod \notin ThirteenMethods THEN "method"
  ELSE IF ~validateRpcParams(LowerMethod, IF FalsyParams THEN JArr(<<>>) ELSE cur.body.params)
    THEN "params"
  ELSE "forward"

C9_StatusOf(check) ==
  CASE check = "body" -> 500
    [] check \in {"general", "rpc"} -> 429
    [] check = "credentials" -> 503
    [] check = "format" -> 400
    [] check = "method" -> 403
    [] check = "params" -> 400

\* C9 amended: each POST /rpc passes its checks in the order body parsed,
\* general rate limit, rpc rate limit, CORS headers, credentials, request
\* format, method, params, forward, and the response is determined by the
\* first check that fails in that order: a rate-limited response carries no
\* CORS header, and the credentials check precedes method and params rejection.
C9_CheckOrder ==
  IsRpc =>
    LET n == Len(cur.res.checks)
    IN /\ n >= 1 /\ n <= Len(C9_CodeOrder)
       /\ cur.res.checks = SubSeq(C9_CodeOrder, 1, n)
       /\ cur.res.checks[n] = C9_FirstFailure
       /\ IF C9_FirstFailure = "forward"
            THEN Len(cur.res.sent) = 1
            ELSE cur.res.status = C9_StatusOf(C9_FirstFailure) /\ cur.res.sent = <<>>
       /\ cur.res.acao =
            IF n >= 4 /\ cur.origin \in {"https://sha256coin.eu", "https://www.sha256coin.eu"}
              THEN cur.origin ELSE NoHeader

\* C9 witness: a rate-limited request from an allowed origin, with credentials
\* unset and a method outside the allow-list, answered 429 without CORS header
C9_Witness ==
  /\ IsRpc /\ cur.res.status = 429 /\ cur.origin = "https://sha256coin.eu"
  /\ cur.res.acao = NoHeader /\ ~CredentialsSet
  /\ StringMethod /\ LowerMethod \notin ThirteenMethods

(***************************************************************************)
(* Properties of the rate limiters                                         *)
(***************************************************************************)
\* the budgets C10 states: requests per window, window in minutes
C10_Max(lim) ==
  CASE lim = "general" -> 200 [] lim = "api" -> 60 [] lim = "download" -> 20 [] lim = "rpc" -> 30

C10_Minutes(lim) ==
  CASE lim = "general" -> 15 [] lim = "api" -> 1 [] lim = "download" -> 15 [] lim = "rpc" -> 1

\* the limiter of the route class a request belongs to
C10_LimiterOf(route) ==
  CASE route = "rpc" -> "rpc"
    [] route \in {"klingex", "rabidrabbit"} -> "api"
    [] route = "download" -> "download"
    [] OTHER -> "general"

\* C10: for each limiter and client: a request that arrives while the
\* client's window is running is counted, and it is answered 429 by that
\* limiter exactly when it is beyond the max-th request of the window; a
\* request that arrives once the window has elapsed starts a new window with
\* the counter reset, and is allowed.  Every request the body parser accepts
\* is counted by the general limiter, and one the general limiter allows is
\* counted by the limiter of its route (a download only if no file is served).
C10_RateLimit ==
  [][(cur.route = "none" /\ cur'.route # "none") =>
       LET k == cur'.key
           r == cur'.res
           own == C10_LimiterOf(cur'.route)
       IN /\ (cur'.body.kind \notin {"malformed", "primitive", "toolarge"})
               => "general" \in r.counted
          /\ ("general" \in r.counted /\ ~(r.status = 429 /\ r.error = message("general"))
                /\ ~(cur'.route = "download" /\ r.status = 200))
               => own \in r.counted
          /\ \A lim \in r.counted :
               LET denied == r.status = 429 /\ r.error = message(lim)
               IN IF now < resetTime[lim][k]
                    THEN /\ hits'[lim][k] = hits[lim][k] + 1
                         /\ resetTime'[lim][k] = resetTime[lim][k]
                         /\ denied <=> (hits[lim][k] + 1 > C10_Max(lim))
                    ELSE /\ hits'[lim][k] = 1
                         /\ resetTime'[lim][k] = now + C10_Minutes(lim) * 60000
                         /\ ~denied]_vars

\* C10 witness: after a window of the rpc limiter has elapsed and a new one
\* has started, the 31st request of the new window is answered 429
C10_Witness ==
  /\ IsRpc /\ cur.res.status = 429 /\ cur.res.error = message("rpc")
  /\ hits["rpc"][cur.key] = 31 /\ now > 0 /\ resetTime["rpc"][cur.key] = now + 60000

(***************************************************************************)
(* Properties of the limiters' coverage, of the CORS rule, of the          *)
(* forwarded request and of the upstream callbacks                         *)
(***************************************************************************)
\* C11 as stated: every request the server takes, whatever its body and
\* whatever it is answered, raises the general counter of its key by exactly
\* one, and every POST /rpc raises the rpc counter of its key by exactly one
\* as well (the clock of Spec does not advance, so no window restarts).
C11_EveryRequestCounted ==
  [][(Idle /\ cur'.route # "none")
       => /\ hits'["general"][cur'.key] = hits["general"][cur'.key] + 1
          /\ cur'.route = "rpc" => hits'["rpc"][cur'.key] = hits["rpc"][cur'.key] + 1]_vars

\* C12 as stated: every request under /downloads that the general limiter
\* lets through, a served file included, is counted by the downloads
\* limiter (so that the 21st of a window can be answered 429).
C12_DownloadsCounted ==
  (cur.route = "download" /\ "general" \in cur.res.counted
     /\ hits["general"][cur.key] <= 200)
    => "download" \in cur.res.counted

\* C13 as stated: the key the limiters count a request under is the address
\* of the client as the one reverse proxy reports it, whatever
\* X-Forwarded-For header the client sent along.
C13_KeyIsClient ==
  (cur.route # "none" /\ conn # NoConn) => cur.key = conn.client

\* C14 as stated: every response with a status of 400 or more has a JSON
\* object { error: <string> } as its body.
C14_ErrorBody ==
  cur.res.status >= 400 => (cur.res.json /\ cur.res.error # "")

\* the origin of the request being served is one of the two allow-listed
AllowListedOrigin ==
  cur.origin \in {"https://sha256coin.eu", "https://www.sha256coin.eu"}

\* C15: a response to POST /rpc or OPTIONS /rpc carries
\* Access-Control-Allow-Origin only when the Origin of the request is one of
\* the two allow-listed origins, and then its value is that Origin; every
\* response the two handlers produce to an allow-listed Origin carries it;
\* OPTIONS /rpc is answered 204 whatever the credentials and the body's
\* fields are, and is not counted by the rpc limiter.
C15_CorsRule ==
  cur.route \in {"rpc", "options"}
    => /\ cur.res.acao # NoHeader => (AllowListedOrigin /\ cur.res.acao = cur.origin)
       /\ (~UnparsedBody /\ NotLimited /\ AllowListedOrigin) => cur.res.acao = cur.origin
       /\ (cur.route = "options" /\ ~UnparsedBody /\ NotLimited)
            => /\ cur.res.status = 204
               /\ cur.res.counted = {"general"}
               /\ cur.res.sent = <<>> /\ cur.up = "none"

\* C15 witness: with no credentials configured, an OPTIONS /rpc from the
\* www origin that names a method outside the allow-list was answered 204
\* with the origin echoed
C15_Witness ==
  /\ cur.route = "options" /\ ~CredentialsSet
  /\ cur.origin = "https://www.sha256coin.eu"
  /\ cur.body.method = JStr(<<"s","t","o","p">>)
  /\ cur.res.status = 204 /\ cur.res.acao = "https://www.sha256coin.eu"

\* the request written to the node has the four fields of the payload, the
\* fixed jsonrpc and id, the lower-cased method, and an Authorization header
\* made of the configured user and password
C16_Envelope(req) ==
  /\ DOMAIN req = {"jsonrpc", "id", "method", "params", "Authorization"}
  /\ req.jsonrpc = "1.0" /\ req.id = "web-wallet"
  /\ req.method = LowerMethod /\ req.method \in ThirteenMethods
  /\ req.Authorization =
       [scheme |-> "Basic",
        base64of |-> RPC_CONFIG.user.s \o <<":">> \o RPC_CONFIG.password.s]

\* C16 as stated: the payload written to the node is exactly {jsonrpc:'1.0',
\* id:'web-wallet', method, params} with the lower-cased method, and params
\* is the caller's params unchanged, or [] when the caller's body has no
\* params field.
C16_Original ==
  \A i \in 1..Len(cur.res.sent) :
    /\ C16_Envelope(cur.res.sent[i])
    /\ cur.res.sent[i].params =
         IF cur.body.params.t = "undefined" THEN JArr(<<>>) ELSE cur.body.params

\* C16 amended: the payload written to the node is exactly {jsonrpc:'1.0',
\* id:'web-wallet', method, params} with the lower-cased method; params is
\* the caller's array, unchanged but for numbers beyond the range of doubles,
\* which are written as null, or [] when the caller's params is absent or
\* a falsy value (null, 0, "", false); the caller's id never reaches the
\* node, and the Authorization header is made of the configured user and
\* password only.
C16_ForwardedPayload ==
  \A i \in 1..Len(cur.res.sent) :
    /\ CredentialsSet
    /\ C16_Envelope(cur.res.sent[i])
    /\ cur.res.sent[i].params =
         IF cur.body.params.t = "array" THEN NonFiniteAsNull(cur.body.params)
                                        ELSE JArr(<<>>)
    /\ cur.body.params.t # "array" => FalsyParams

\* C16 witness: a request that carries its own id 42 was forwarded with the
\* id 'web-wallet'
C16_Witness ==
  /\ IsRpc /\ Len(cur.res.sent) = 1
  /\ cur.body.id = JNum(42)
  /\ cur.res.sent[1].id = "web-wallet"

\* C17: a POST /rpc that passes every check has exactly one request written
\* to the node, a rejected one has none, and this stays so whatever the
\* upstream callbacks do afterwards (error, timeout, oversize, parse
\* failure): nothing is written a second time.
C17_OneOutbound ==
  IsRpc => Len(cur.res.sent) = IF C9_FirstFailure = "forward" THEN 1 ELSE 0

\* C17 witness: the upstream timed out before a response, the destroyed
\* request emitted its error, and still one request only was written
C17_Witness ==
  /\ IsRpc /\ cur.last = "error" /\ cur.sends = 2 /\ cur.up = "closed"
  /\ Len(cur.res.sent) = 1

\* C18: when the timeout of an upstream request fires before the client was
\* answered, the upstream request is destroyed and the client is answered
\* 504 with the route's fixed message; when the upstream request fails
\* before the client was answered, the client is answered 500 with the
\* route's fixed message.
C18_TimeoutAndError ==
  /\ (cur.last = "timeout" /\ cur.sends = 1)
       => /\ cur.up \in {"hangup", "destroyed"}
          /\ cur.res.status = 504 /\ cur.res.json
          /\ cur.res.error = IF IsRpc THEN "RPC timeout" ELSE "Request timeout"
  /\ (cur.last = "error" /\ cur.sends = 1)
       => /\ cur.res.status = 500 /\ cur.res.json
          /\ cur.res.error = IF IsRpc THEN "RPC connection failed"
                                      ELSE "Failed to fetch price data"

\* C18 witness: the node's response stalled after 6000000 characters, the
\* timeout fired, the request was destroyed and the client answered 504
C18_Witness ==
  /\ IsRpc /\ cur.last = "timeout" /\ cur.sends = 1 /\ cur.size = 6000000
  /\ cur.up = "destroyed" /\ cur.res.status = 504

C20_NotFound ==
  (IsPrice /\ cur.last = "end"
     /\ IF cur.route = "klingex"
          THEN /\ cur.reply.kind = "array"
               /\ \A i \in 1..Len(cur.reply.elems) : cur.reply.elems[i] # "pair"
          ELSE cur.reply.kind = "object" /\ cur.reply.pair = "absent")
    => (cur.res.status = 200 /\ cur.res.error = "S256_USDT not found")

(***************************************************************************)
(* Properties of the exchange proxies' end handlers, of the sanitizer, of  *)
(* the relay and of the callbacks' interplay                               *)
(***************************************************************************)
\* C21 as stated: when the body of an exchange parses as JSON but is not of
\* the shape the handler expects (klingex: any value that is not an array;
\* rabidrabbit: any value that is not a keyed mapping, i.e. an array, null,
\* a number, a string, a boolean), the client is answered 500
\* {error:'Invalid response format'}.
C21_WrongShape ==
  (IsPrice /\ cur.last = "end"
     /\ cur.reply.kind \notin {"empty", "html", "truncated"}
     /\ cur.reply.kind # (IF cur.route = "klingex" THEN "array" ELSE "object"))
    => (cur.res.status = 500 /\ cur.res.error = "Invalid response format")

\* the nine names a sanitized ticker may have as keys
NineFields ==
  {"ticker_id", "last_price", "high", "low", "base_volume", "target_volume",
   "quote_volume", "bid", "ask"}

\* sanitizeTickerData has returned an object
Sanitized == ticker.calls >= 1 /\ ticker.out # JNull

C23_FiniteNumbers ==
  Sanitized
    => \A field \in DOMAIN ticker.out.f \ {"ticker_id"} :
         /\ ticker.out.f[field].t = "number"
         /\ parseFloat(ticker.raw.f[field]).t # "number" => ticker.out.f[field] = JNum(0)

\* the error messages the upstream callbacks of a route answer with
C24_Messages(route) ==
  IF route = "rpc"
    THEN {"RPC connection failed", "RPC timeout", "Response too large",
          "Invalid RPC response"}
    ELSE {"Failed to fetch price data", "Request timeout", "Response too large",
          "Invalid response format", "Failed to process response"}

\* C24: every error response that a failure of the upstream causes on /rpc
\* and /api/price-* (connection error, timeout, oversized body, unparseable
\* body, wrong shape) carries one message of the route's fixed set; the
\* message is the same whatever error the connection failed with and
\* whatever text the unparseable body was, so nothing the upstream said
\* reaches the browser.
C24_FixedMessages ==
  ((IsRpc \/ IsPrice) /\ cur.up # "none" /\ cur.sends >= 1 /\ cur.res.status >= 500)
    => /\ cur.res.json
       /\ cur.res.error \in C24_Messages(cur.route)
       /\ cur.res.error # cur.detail
       /\ (cur.sends = 1 /\ cur.last = "error")
            => cur.res.error = IF IsRpc THEN "RPC connection failed"
                                        ELSE "Failed to fetch price data"
       /\ (cur.sends = 1 /\ cur.last = "end" /\ cur.reply.kind \in Unparseable)
            => cur.res.error = IF IsRpc THEN "Invalid RPC response"
                                        ELSE "Failed to process response"

\* C24 witness: the request to an exchange failed with ENOTFOUND and the
\* client was answered the fixed message
C24_Witness ==
  /\ IsPrice /\ cur.sends = 1 /\ cur.last = "error" /\ cur.detail = "ENOTFOUND"
  /\ cur.res.status = 500 /\ cur.res.error = "Failed to fetch price data"

\* C25 as stated: when the body of the node's response is complete and
\* within the size bound, the client is answered 200 with exactly the value
\* the body parses to, and when the body does not parse the client is
\* answered 500 {error:'Invalid RPC response'}.
C25_Original ==
  (IsRpc /\ cur.last = "end")
    => IF cur.reply.kind \in Unparseable
         THEN cur.res.status = 500 /\ cur.res.error = "Invalid RPC response"
         ELSE cur.res.status = 200 /\ cur.relayed = cur.reply.value

\* C25 amended: when the body of the node's response is complete and within
\* the size bound, the client is answered 200 with the value the body parses
\* to, in which every number beyond the range of doubles (parsed as
\* Infinity) is replaced by null and nothing else is added, removed or
\* rewritten; when the body does not parse the client is answered 500
\* {error:'Invalid RPC response'}.
C25_Relay ==
  (IsRpc /\ cur.last = "end")
    => IF cur.reply.kind \in Unparseable
         THEN cur.res.status = 500 /\ cur.res.error = "Invalid RPC response"
                /\ cur.relayed = JUndef
         ELSE cur.res.status = 200 /\ cur.relayed = NonFiniteAsNull(cur.reply.value)

\* C25 witness: the node's JSON-RPC response with the result 840000 was
\* relayed as it is
C25_Witness ==
  /\ IsRpc /\ cur.last = "end" /\ cur.res.status = 200
  /\ cur.relayed.t = "object" /\ DOMAIN cur.relayed.f = {"result", "error", "id"}
  /\ cur.relayed.f["result"] = JNum(840000)

\* C26 as stated: for every request to POST /rpc and GET /api/price-* and
\* every ordering of the upstream events, the handler sends a response at
\* most once.
C26_AtMostOnce == (IsRpc \/ IsPrice) => cur.sends <= 1

\* C27 as stated, for finite runs: a request that a proxy handler accepted
\* and that was not answered yet has an upstream callback to come that
\* answers it, under every upstream behaviour; there is no state where the
\* request is unanswered and its upstream connection is gone.
C27_Answered ==
  ((IsRpc \/ IsPrice) /\ cur.up # "none" /\ cur.sends = 0)
    => cur.up \in {"open", "receiving"}

\* the response of request r follows from r's own route, upstream events
\* and upstream reply, and r's buffer holds the chunks of r's own upstream
\* (6000000 characters each from the node, 600000 from an exchange)
C28_OwnResponse(r) ==
  (r.route \in {"rpc", "klingex", "rabidrabbit"} /\ r.up # "none")
    => /\ r.sends = 0 => r.res.status = 0
       /\ (r.sends = 1 /\ r.last = "data")
            => (r.res.status = 500 /\ r.res.error = "Response too large"
                  /\ r.size > IF r.route = "rpc" THEN 10000000 ELSE 1000000)
       /\ (r.last = "end" /\ r.reply.kind = "html")
            => (r.res.status = 500
                  /\ r.res.error = IF r.route = "rpc" THEN "Invalid RPC response"
                                                      ELSE "Failed to process response")
       /\ (r.last = "end" /\ r.reply.kind # "html") => r.res.status \in {200, 500}
       /\ (r.last = "end" /\ r.route = "rpc" /\ r.reply.kind # "html")
            => (r.res.status = 200 /\ r.relayed = r.reply.value)
       /\ r.last \in {"response", "aborted"} => r.sends = 0
       /\ r.size > 0 => r.size \in IF r.route = "rpc" THEN {6000000, 12000000}
                                                       ELSE {600000, 1200000}

C29_Idempotent ==
  (ticker.calls = 2 /\ ticker.raw.t = "object")
    => /\ DOMAIN ticker.again.f = DOMAIN ticker.out.f
       /\ \A field \in DOMAIN ticker.out.f : ticker.again.f[field] = ticker.out.f[field]

\* C29 witness: the price "-2.50" became the number -2.5, the ticker_id lost
\* its quotes and its ampersand, and the second call changed neither
C29_Witness ==
  /\ ticker.calls = 2
  /\ {"bid", "ticker_id"} \subseteq DOMAIN ticker.raw.f
  /\ ticker.raw.f["bid"] = JStr(<<"-", "2", ".", "5", "0">>)
  /\ ticker.raw.f["ticker_id"] = JStr(<<"a", "&", "b", "\"", "c", "'", "d">>)
  /\ ticker.out.f["bid"] = JDec(0 - 25, 1)
  /\ ticker.out.f["ticker_id"] = JStr(<<"a", "b", "c", "d">>)
  /\ ticker.again = ticker.out

====
